---------------------------- MODULE Spec2Model ----------------------------
(***************************************************************************)
(* Model of src/Sim.py: a bank with NUM_CAJEROS tellers simulated with     *)
(* SimPy under two disciplines, "cola_unica" (one Resource of capacity     *)
(* NUM_CAJEROS) and "colas_separadas" (NUM_CAJEROS Resources of capacity   *)
(* 1, the customer picks the shortest queue).                              *)
(*                                                                         *)
(* The SimPy calls of Sim.py are modelled by what they do at the call      *)
(* site: env.process schedules an Initialize event (URGENT) at the current *)
(* time, env.timeout a Timeout event (NORMAL) at now + delay,              *)
(* Resource.request appends to put_queue and grants the head of put_queue  *)
(* when a unit is free (the granted Request event is scheduled NORMAL at   *)
(* now), leaving the with block removes the request from users and         *)
(* schedules a Release event (NORMAL, now) whose processing grants the     *)
(* head of put_queue, and env.run(until) schedules an URGENT stop event    *)
(* at the horizon.  The event heap orders events by (time, priority,       *)
(* insertion).                                                             *)
(*                                                                         *)
(* Time is discrete: the exponential variates (support [0, inf)) are       *)
(* nondeterministic choices in 0..MaxLlegada and 0..MaxServicio.           *)
(* Probabilities are integers in hundredths.  Python's 0-based index k of  *)
(* cajeros is k + 1 here; generar_tipo_transaccion returns the 0-based     *)
(* index of the code.                                                      *)
(*                                                                         *)
(* An exception raised inside a process (min() of an empty list, a         *)
(* negative delay given to env.timeout) fails the process: its Process     *)
(* event is scheduled (NORMAL, now) and env.step raises the exception when *)
(* that event is processed.  A Resource of capacity <= 0 raises when it is *)
(* constructed.                                                            *)
(***************************************************************************)
EXTENDS Integers, Sequences, FiniteSets

VARIABLES
    modo,            \* argument of simular_banco
    num_cajeros,     \* NUM_CAJEROS of the run
    horizonte,       \* the until of env.run
    now,             \* env.now
    queue,           \* env._queue, kept in insertion (eid) order
    users,           \* Resource.users, per teller Resource
    put_queue,       \* Resource.queue (put_queue), per teller Resource
    i,               \* counter of generador_clientes
    estado,          \* position of each customer process
    llegada,         \* local llegada of each customer process
    cajero,          \* Resource requested by each customer process
    usage_since,     \* Request.usage_since: env.now when the unit was given
    tiempos_espera,  \* the list tiempos_espera
    quien,           \* history: the customer behind each entry of tiempos_espera
    solicitudes,     \* history: customers in the order they called request()
    terminado,       \* env.run has returned
    media_negativa,  \* the mean service times of TRANSACCIONES are negative
    error,           \* an exception has left simular_banco
    tabla, r, tipo,  \* one categorical draw: table, random.random(), result
    sorteado,        \* the draw has been made
    colas, elegido   \* one routing decision: queue lengths, chosen teller

simVars == <<modo, num_cajeros, horizonte, now, queue, users, put_queue, i, estado, llegada,
             cajero, usage_since, tiempos_espera, quien, solicitudes, terminado,
             media_negativa, error>>
drawVars == <<tabla, r, tipo, sorteado>>
routeVars == <<colas, elegido>>
vars == <<simVars, drawVars, routeVars>>

-----------------------------------------------------------------------------
(* Bounds of the model *)

\* most tellers in a simulated run (NUM_CAJEROS scaled down: 1..NumCajeros)
NumCajeros == 2
\* customers the generator creates before its next arrival falls past the horizon
MaxClientes == 3
\* horizon of the simulated runs (TIEMPO_SIMULACION scaled down)
Horizon == 3
\* largest interarrival delay drawn
MaxLlegada == 1
\* largest service duration drawn
MaxServicio == 1
\* longest table of transaction types drawn
MaxTipos == 4
\* largest number of tellers whose queues are compared in one routing decision
MaxPool == 3
\* longest wait queue in one routing decision
MaxCola == 3

(* Program constants *)

\* resolution of probabilities and of random.random(): hundredths
Escala == 100

\* TRANSACCIONES: (probability in hundredths, mean service time)
TRANSACCIONES ==
    << [p |-> 15, media |-> 45], [p |-> 29, media |-> 75],
       [p |-> 32, media |-> 120], [p |-> 24, media |-> 180] >>

Clientes == 1..MaxClientes
GEN == 0

-----------------------------------------------------------------------------
(* Pure functions *)

\* the test r <= acum of generar_tipo_transaccion
DentroDeAcumEstricto(rr, acum) == rr < acum
DentroDeAcum(rr, acum) == rr <= acum

\* a loop whose fallback is the first index
RECURSIVE RecorrerAlPrimero(_, _, _, _)
RecorrerAlPrimero(probs, rr, k, acum) ==
    IF k > Len(probs) THEN 0
    ELSE LET a == acum + probs[k]
         IN  IF DentroDeAcum(rr, a) THEN k - 1
             ELSE RecorrerAlPrimero(probs, rr, k + 1, a)

\* the for loop of generar_tipo_transaccion from position k with acum so far
RECURSIVE Recorrer(_, _, _, _)
Recorrer(probs, rr, k, acum) ==
    IF k > Len(probs) THEN Len(probs) - 1
    ELSE LET a == acum + probs[k]
         IN  IF DentroDeAcum(rr, a) THEN k - 1
             ELSE Recorrer(probs, rr, k + 1, a)

\* generar_tipo_transaccion with r = rr over the probabilities of a table
generar_tipo_transaccion(probs, rr) == Recorrer(probs, rr, 1, 0)

\* the p column of TRANSACCIONES
ProbsTransacciones == [k \in 1..Len(TRANSACCIONES) |-> TRANSACCIONES[k].p]

\* min(cajeros, key=...) replaces its candidate only on a strictly smaller key
MenorOIgual(a, b) == a <= b
Menor(a, b) == a < b

RECURSIVE MinDesde(_, _, _)
MinDesde(lens, k, mejor) ==
    IF k > Len(lens) THEN mejor
    ELSE MinDesde(lens, k + 1, IF Menor(lens[k], lens[mejor]) THEN k ELSE mejor)

\* min(cajeros, key=lambda r: len(r.queue)) over the queue lengths
ColaMasCorta(lens) == MinDesde(lens, 2, 1)

\* espera = env.now - llegada
EsperaInvertida(t, lleg) == lleg - t
Espera(t, lleg) == t - lleg

-----------------------------------------------------------------------------
(* The event heap *)

\* priority SimPy gives each kind of event
Prioridad(kind) == IF kind \in {"Initialize", "Until"} THEN 0 ELSE 1

Evento(t, kind, who) == [t |-> t, kind |-> kind, who |-> who]

\* heap order of the events at positions k and j: (time, priority, eid)
AntesSinPrioridad(q, k, j) ==
    \/ q[k].t < q[j].t
    \/ q[k].t = q[j].t /\ k < j
\* the heap order if the stop event of the run went after the events of its time
AntesUntilAlFinal(q, k, j) ==
    \/ q[k].t < q[j].t
    \/ q[k].t = q[j].t /\ q[k].kind # "Until" /\ q[j].kind = "Until"
    \/ /\ q[k].t = q[j].t /\ q[k].kind # "Until" /\ q[j].kind # "Until"
       /\ \/ Prioridad(q[k].kind) < Prioridad(q[j].kind)
          \/ Prioridad(q[k].kind) = Prioridad(q[j].kind) /\ k < j
Antes(q, k, j) ==
    \/ q[k].t < q[j].t
    \/ q[k].t = q[j].t /\ Prioridad(q[k].kind) < Prioridad(q[j].kind)
    \/ q[k].t = q[j].t /\ Prioridad(q[k].kind) = Prioridad(q[j].kind) /\ k < j

\* a pop from the wrong end: the event scheduled last
SiguienteUltimo(q) == Len(q)

\* position of the event heappop returns
Siguiente(q) == CHOOSE k \in 1..Len(q) : \A j \in 1..Len(q) : j # k => Antes(q, k, j)

Quitar(q, k) == SubSeq(q, 1, k - 1) \o SubSeq(q, k + 1, Len(q))

\* the event env.step pops, and the heap without it
Ev == queue[Siguiente(queue)]
Resto == Quitar(queue, Siguiente(queue))

-----------------------------------------------------------------------------
(* Resources *)

\* capacity of each Resource, and the Resources, that simular_banco creates
Capacidad == IF modo = "cola_unica" THEN num_cajeros ELSE 1
Recursos == IF modo = "cola_unica" THEN {1} ELSE 1..num_cajeros

\* Resource._do_put: a unit is given only while len(users) < capacity
HayCapacidadDeMas(n, cap) == n <= cap
HayCapacidadEscasa(n, cap) == n < cap - 1
HayCapacidad(n, cap) == n < cap

\* which waiting request Resource._trigger_put tries: the head of put_queue
UltimoEnCola(pq) == Len(pq)
PrimeroEnCola(pq) == 1

\* a _trigger_put that, finding its own put_queue empty, serves the head of
\* another Resource's put_queue
TriggerPutAjeno(k, t, us, pq, q, since) ==
    LET conCola == {m \in DOMAIN pq : pq[m] # << >>}
    IN  IF conCola # {} /\ HayCapacidad(Len(us[k]), Capacidad)
        THEN LET m == IF pq[k] # << >> THEN k ELSE CHOOSE x \in conCola : TRUE
                 c == Head(pq[m])
             IN  [users |-> [us EXCEPT ![k] = Append(@, c)],
                  put_queue |-> [pq EXCEPT ![m] = Tail(@)],
                  queue |-> Append(q, Evento(t, "Request", c)),
                  usage_since |-> [since EXCEPT ![c] = t]]
        ELSE [users |-> us, put_queue |-> pq, queue |-> q, usage_since |-> since]

\* Resource._trigger_put on Resource k at time t: the head of put_queue gets a
\* unit if one is free; its Request event is scheduled at t
TriggerPut(k, t, us, pq, q, since) ==
    IF pq[k] # <<>> /\ HayCapacidad(Len(us[k]), Capacidad)
    THEN LET pos == PrimeroEnCola(pq[k])
             c == pq[k][pos]
         IN  [users |-> [us EXCEPT ![k] = Append(@, c)],
              put_queue |-> [pq EXCEPT ![k] = Quitar(@, pos)],
              queue |-> Append(q, Evento(t, "Request", c)),
              usage_since |-> [since EXCEPT ![c] = t]]
    ELSE [users |-> us, put_queue |-> pq, queue |-> q, usage_since |-> since]

-----------------------------------------------------------------------------
(* simular_banco: the state when env.run starts its loop *)

SimInit(h) ==
    /\ modo \in {"cola_unica", "colas_separadas"}
    /\ num_cajeros \in 1..NumCajeros
    /\ horizonte = h
    /\ now = 0
    /\ queue = << Evento(0, "Initialize", GEN), Evento(h, "Until", GEN) >>
    /\ users = [k \in Recursos |-> << >>]
    /\ put_queue = [k \in Recursos |-> << >>]
    /\ i = 0
    /\ estado = [c \in Clientes |-> "NoCreado"]
    /\ llegada = [c \in Clientes |-> -1]
    /\ cajero = [c \in Clientes |-> 0]
    /\ usage_since = [c \in Clientes |-> -1]
    /\ tiempos_espera = << >>
    /\ quien = << >>
    /\ solicitudes = << >>
    /\ terminado = FALSE
    /\ media_negativa = FALSE
    /\ error = FALSE

DrawIdle == tabla = << >> /\ r = 0 /\ tipo = -1 /\ sorteado = FALSE
RouteIdle == colas = << >> /\ elegido = 0

Init == SimInit(Horizon) /\ DrawIdle /\ RouteIdle

\* env.step is about to pop an event of this kind
Toca(kind) == ~terminado /\ queue # << >> /\ Ev.kind = kind

\* generar_tiempo_llegada and generar_tiempo_servicio: exponential variates
TiemposLlegada == 0..MaxLlegada
TiemposServicio == IF media_negativa THEN (0 - MaxServicio)..0 ELSE 0..MaxServicio

-----------------------------------------------------------------------------
(* generador_clientes *)

\* the generator starts and suspends on its first interarrival timeout
generador_clientes_inicia ==
    /\ Toca("Initialize") /\ Ev.who = GEN
    /\ now' = Ev.t
    /\ \E d \in TiemposLlegada :
           queue' = Append(Resto, Evento(Ev.t + d, "Timeout", GEN))
    /\ UNCHANGED <<modo, num_cajeros, horizonte, media_negativa, error,
                   users, put_queue, i, estado, llegada, cajero,
                   usage_since, tiempos_espera, quien, solicitudes, terminado>>
    /\ UNCHANGED <<drawVars, routeVars>>

\* the interarrival timeout fires: customer i + 1 is started as a process and
\* the generator suspends on the next timeout.  After customer MaxClientes
\* the next arrival is drawn past the horizon.
generador_clientes_llegada ==
    /\ Toca("Timeout") /\ Ev.who = GEN
    /\ i < MaxClientes
    /\ now' = Ev.t
    /\ i' = i + 1
    /\ estado' = [estado EXCEPT ![i + 1] = "Creado"]
    /\ \E d \in TiemposLlegada :
           LET sig == IF i + 1 < MaxClientes THEN Ev.t + d ELSE horizonte + 1
           IN  queue' = Append(Append(Resto, Evento(Ev.t, "Initialize", i + 1)),
                               Evento(sig, "Timeout", GEN))
    /\ UNCHANGED <<modo, num_cajeros, horizonte, media_negativa, error,
                   users, put_queue, llegada, cajero,
                   usage_since, tiempos_espera, quien, solicitudes, terminado>>
    /\ UNCHANGED <<drawVars, routeVars>>

-----------------------------------------------------------------------------
(* the customer processes *)

\* a request that enters put_queue at its front
SolicitarAlFrente(c, k) ==
    LET g == TriggerPut(k, Ev.t, users, [put_queue EXCEPT ![k] = <<c>> \o @],
                        Resto, usage_since)
    IN  /\ now' = Ev.t
        /\ llegada' = [llegada EXCEPT ![c] = Ev.t]
        /\ cajero' = [cajero EXCEPT ![c] = k]
        /\ solicitudes' = Append(solicitudes, c)
        /\ users' = g.users
        /\ put_queue' = g.put_queue
        /\ queue' = g.queue
        /\ usage_since' = g.usage_since
        /\ estado' = [estado EXCEPT ![c] = "Queueing"]
        /\ UNCHANGED <<modo, num_cajeros, horizonte, media_negativa, error,
                       i, tiempos_espera, quien, terminado>>
        /\ UNCHANGED <<drawVars, routeVars>>

\* the customer starts: llegada = env.now, the Resource k is requested
\* (put_queue.append, then _trigger_put) and the process suspends on req
Solicitar(c, k) ==
    LET g == TriggerPut(k, Ev.t, users, [put_queue EXCEPT ![k] = Append(@, c)],
                        Resto, usage_since)
    IN  /\ now' = Ev.t
        /\ llegada' = [llegada EXCEPT ![c] = Ev.t]
        /\ cajero' = [cajero EXCEPT ![c] = k]
        /\ solicitudes' = Append(solicitudes, c)
        /\ users' = g.users
        /\ put_queue' = g.put_queue
        /\ queue' = g.queue
        /\ usage_since' = g.usage_since
        /\ estado' = [estado EXCEPT ![c] = "Queueing"]
        /\ UNCHANGED <<modo, num_cajeros, horizonte, media_negativa, error,
                       i, tiempos_espera, quien, terminado>>
        /\ UNCHANGED <<drawVars, routeVars>>

\* Atender without the append of line 63 / 78
AtenderSinRegistrar(c) ==
    /\ now' = Ev.t
    /\ \E s \in TiemposServicio :
           s >= 0 /\ queue' = Append(Resto, Evento(Ev.t + s, "Timeout", c))
    /\ estado' = [estado EXCEPT ![c] = "InService"]
    /\ UNCHANGED <<modo, num_cajeros, horizonte, media_negativa, error,
                   users, put_queue, i, llegada, cajero,
                   usage_since, tiempos_espera, quien, solicitudes, terminado>>
    /\ UNCHANGED <<drawVars, routeVars>>

\* Salir with a second sample taken when the service ends
SalirMidiendo(c) ==
    /\ now' = Ev.t
    /\ users' = [users EXCEPT ![cajero[c]] = SelectSeq(@, LAMBDA u : u # c)]
    /\ queue' = Append(Append(Resto, Evento(Ev.t, "Release", c)),
                       Evento(Ev.t, "Process", c))
    /\ estado' = [estado EXCEPT ![c] = "Departed"]
    /\ tiempos_espera' = Append(tiempos_espera, Espera(Ev.t, llegada[c]))
    /\ quien' = Append(quien, c)
    /\ UNCHANGED <<modo, num_cajeros, horizonte, media_negativa, error,
                   put_queue, i, llegada, cajero,
                   usage_since, solicitudes, terminado>>
    /\ UNCHANGED <<drawVars, routeVars>>

\* Salir without the release of the request
SalirSinLiberar(c) ==
    /\ now' = Ev.t
    /\ queue' = Append(Append(Resto, Evento(Ev.t, "Release", c)),
                       Evento(Ev.t, "Process", c))
    /\ estado' = [estado EXCEPT ![c] = "Departed"]
    /\ UNCHANGED <<modo, num_cajeros, horizonte, media_negativa, error,
                   users, put_queue, i, llegada, cajero,
                   usage_since, tiempos_espera, quien, solicitudes, terminado>>
    /\ UNCHANGED <<drawVars, routeVars>>

\* req is processed: the customer resumes, appends its wait and suspends on the
\* service timeout
Atender(c) ==
    /\ now' = Ev.t
    /\ tiempos_espera' = Append(tiempos_espera, Espera(Ev.t, llegada[c]))
    /\ quien' = Append(quien, c)
    /\ \E s \in TiemposServicio :
           s >= 0 /\ queue' = Append(Resto, Evento(Ev.t + s, "Timeout", c))
    /\ estado' = [estado EXCEPT ![c] = "InService"]
    /\ UNCHANGED <<modo, num_cajeros, horizonte, media_negativa, error,
                   users, put_queue, i, llegada, cajero,
                   usage_since, solicitudes, terminado>>
    /\ UNCHANGED <<drawVars, routeVars>>

\* the service timeout is processed: the with block is left (the request leaves
\* users and a Release event is scheduled) and the process ends (its Process
\* event is scheduled)
Salir(c) ==
    /\ now' = Ev.t
    /\ users' = [users EXCEPT ![cajero[c]] = SelectSeq(@, LAMBDA u : u # c)]
    /\ queue' = Append(Append(Resto, Evento(Ev.t, "Release", c)),
                       Evento(Ev.t, "Process", c))
    /\ estado' = [estado EXCEPT ![c] = "Departed"]
    /\ UNCHANGED <<modo, num_cajeros, horizonte, media_negativa, error,
                   put_queue, i, llegada, cajero, usage_since,
                   tiempos_espera, quien, solicitudes, terminado>>
    /\ UNCHANGED <<drawVars, routeVars>>

cliente_cola_unica_llega ==
    /\ Toca("Initialize") /\ Ev.who # GEN /\ modo = "cola_unica"
    /\ Solicitar(Ev.who, 1)

cliente_cola_unica_atendido ==
    /\ Toca("Request") /\ modo = "cola_unica"
    /\ Atender(Ev.who)

cliente_cola_unica_sale ==
    /\ Toca("Timeout") /\ Ev.who # GEN /\ modo = "cola_unica"
    /\ Salir(Ev.who)

\* queue lengths that count the customer in service as well
LargosConUso == [k \in 1..num_cajeros |-> Len(put_queue[k]) + Len(users[k])]
\* len(r.queue) of every teller, in the order of the list cajeros
LargosDeCola == [k \in 1..num_cajeros |-> Len(put_queue[k])]

cliente_colas_separadas_llega ==
    /\ Toca("Initialize") /\ Ev.who # GEN /\ modo = "colas_separadas"
    /\ num_cajeros > 0
    /\ Solicitar(Ev.who, ColaMasCorta(LargosDeCola))

cliente_colas_separadas_atendido ==
    /\ Toca("Request") /\ modo = "colas_separadas"
    /\ Atender(Ev.who)

cliente_colas_separadas_sale ==
    /\ Toca("Timeout") /\ Ev.who # GEN /\ modo = "colas_separadas"
    /\ Salir(Ev.who)

-----------------------------------------------------------------------------
(* events with SimPy's own callbacks only *)

\* a Release event whose callback wakes nobody
liberacion_sin_aviso ==
    /\ Toca("Release")
    /\ now' = Ev.t
    /\ queue' = Resto
    /\ UNCHANGED <<modo, num_cajeros, horizonte, media_negativa, error,
                   users, put_queue, i, estado, llegada,
                   cajero, usage_since, tiempos_espera, quien, solicitudes, terminado>>
    /\ UNCHANGED <<drawVars, routeVars>>

\* a Release event is processed: its callback is _trigger_put of the Resource
liberacion_procesada ==
    /\ Toca("Release")
    /\ LET g == TriggerPut(cajero[Ev.who], Ev.t, users, put_queue, Resto, usage_since)
       IN  /\ now' = Ev.t
           /\ users' = g.users
           /\ put_queue' = g.put_queue
           /\ queue' = g.queue
           /\ usage_since' = g.usage_since
    /\ UNCHANGED <<modo, num_cajeros, horizonte, media_negativa, error,
                   i, estado, llegada, cajero, tiempos_espera,
                   quien, solicitudes, terminado>>
    /\ UNCHANGED <<drawVars, routeVars>>

\* the Process event of an ended customer is processed: nobody waits for it
proceso_terminado ==
    /\ Toca("Process")
    /\ now' = Ev.t
    /\ queue' = Resto
    /\ UNCHANGED <<modo, num_cajeros, horizonte, media_negativa, error,
                   users, put_queue, i, estado, llegada, cajero,
                   usage_since, tiempos_espera, quien, solicitudes, terminado>>
    /\ UNCHANGED <<drawVars, routeVars>>

\* the until event is processed: env.run returns and the statistics are taken
fin_simulacion ==
    /\ Toca("Until")
    /\ now' = Ev.t
    /\ queue' = Resto
    /\ terminado' = TRUE
    /\ UNCHANGED <<modo, num_cajeros, horizonte, media_negativa, error,
                   users, put_queue, i, estado, llegada, cajero,
                   usage_since, tiempos_espera, quien, solicitudes>>
    /\ UNCHANGED <<drawVars, routeVars>>

Next ==
    \/ generador_clientes_inicia
    \/ generador_clientes_llegada
    \/ cliente_cola_unica_llega
    \/ cliente_cola_unica_atendido
    \/ cliente_cola_unica_sale
    \/ cliente_colas_separadas_llega
    \/ cliente_colas_separadas_atendido
    \/ cliente_colas_separadas_sale
    \/ liberacion_procesada
    \/ proceso_terminado
    \/ fin_simulacion

Spec == Init /\ [][Next]_vars

\* a horizon late enough that no customer is still waiting or in service at it
SinCorte == MaxClientes * (MaxLlegada + MaxServicio) + 1

LiveInit == SimInit(SinCorte) /\ DrawIdle /\ RouteIdle

\* env.run keeps calling env.step while the heap holds an event
LiveSpec == LiveInit /\ [][Next]_vars /\ WF_vars(Next)

-----------------------------------------------------------------------------
(* simular_banco under a configuration that raises *)

\* the request is given but the service time drawn is negative: the sample is
\* appended, env.timeout raises ValueError, the with block is left by the
\* exception (the unit is released) and the process fails
AtenderFalla(c) ==
    /\ now' = Ev.t
    /\ tiempos_espera' = Append(tiempos_espera, Espera(Ev.t, llegada[c]))
    /\ quien' = Append(quien, c)
    /\ \E s \in TiemposServicio : s < 0
    /\ users' = [users EXCEPT ![cajero[c]] = SelectSeq(@, LAMBDA u : u # c)]
    /\ queue' = Append(Append(Resto, Evento(Ev.t, "Release", c)),
                       Evento(Ev.t, "ProcessFailed", c))
    /\ estado' = [estado EXCEPT ![c] = "Fallido"]
    /\ UNCHANGED <<modo, num_cajeros, horizonte, media_negativa, error, put_queue, i,
                   llegada, cajero, usage_since, solicitudes, terminado>>
    /\ UNCHANGED <<drawVars, routeVars>>

cliente_cola_unica_atendido_falla ==
    /\ Toca("Request") /\ modo = "cola_unica"
    /\ AtenderFalla(Ev.who)

cliente_colas_separadas_atendido_falla ==
    /\ Toca("Request") /\ modo = "colas_separadas"
    /\ AtenderFalla(Ev.who)

\* the customer starts with an empty list cajeros: llegada = env.now, then
\* min() raises ValueError and the process fails
cliente_colas_separadas_sin_cajeros ==
    /\ Toca("Initialize") /\ Ev.who # GEN /\ modo = "colas_separadas"
    /\ num_cajeros = 0
    /\ now' = Ev.t
    /\ llegada' = [llegada EXCEPT ![Ev.who] = Ev.t]
    /\ estado' = [estado EXCEPT ![Ev.who] = "Fallido"]
    /\ queue' = Append(Resto, Evento(Ev.t, "ProcessFailed", Ev.who))
    /\ UNCHANGED <<modo, num_cajeros, horizonte, media_negativa, error, users, put_queue,
                   i, cajero, usage_since, tiempos_espera, quien, solicitudes,
                   terminado>>
    /\ UNCHANGED <<drawVars, routeVars>>

\* the Process event of a failed process is processed: nobody handles the
\* exception, env.step raises it and it leaves env.run and simular_banco
proceso_fallido ==
    /\ Toca("ProcessFailed")
    /\ now' = Ev.t
    /\ queue' = Resto
    /\ error' = TRUE
    /\ terminado' = TRUE
    /\ UNCHANGED <<modo, num_cajeros, horizonte, media_negativa, users, put_queue, i,
                   estado, llegada, cajero, usage_since, tiempos_espera, quien,
                   solicitudes>>
    /\ UNCHANGED <<drawVars, routeVars>>

\* simular_banco with NUM_CAJEROS in 0..NumCajeros and mean service times of
\* either sign: simpy.Resource(env, capacity=0) raises at construction, the
\* list comprehension over range(0) gives an empty list cajeros
ErrInit ==
    /\ modo \in {"cola_unica", "colas_separadas"}
    /\ num_cajeros \in 0..NumCajeros
    /\ media_negativa \in BOOLEAN
    /\ error = (modo = "cola_unica" /\ num_cajeros = 0)
    /\ terminado = error
    /\ horizonte = Horizon
    /\ now = 0
    /\ queue = IF error THEN << >>
               ELSE << Evento(0, "Initialize", GEN), Evento(Horizon, "Until", GEN) >>
    /\ users = [k \in Recursos |-> << >>]
    /\ put_queue = [k \in Recursos |-> << >>]
    /\ i = 0
    /\ estado = [c \in Clientes |-> "NoCreado"]
    /\ llegada = [c \in Clientes |-> -1]
    /\ cajero = [c \in Clientes |-> 0]
    /\ usage_since = [c \in Clientes |-> -1]
    /\ tiempos_espera = << >>
    /\ quien = << >>
    /\ solicitudes = << >>
    /\ DrawIdle /\ RouteIdle

ErrNext ==
    \/ Next
    \/ cliente_cola_unica_atendido_falla
    \/ cliente_colas_separadas_atendido_falla
    \/ cliente_colas_separadas_sin_cajeros
    \/ proceso_fallido

ErrSpec == ErrInit /\ [][ErrNext]_vars

-----------------------------------------------------------------------------
(* generar_tipo_transaccion on its own: one draw over a table *)

SimParado == SimInit(Horizon) /\ modo = "cola_unica" /\ num_cajeros = 1

Probs == {0, 15, 24, 29, 32}
Tablas == UNION {[1..n -> Probs] : n \in 0..MaxTipos}

DrawInit ==
    /\ SimParado /\ RouteIdle
    /\ tabla \in Tablas
    /\ r \in 0..(Escala - 1)
    /\ tipo = -1
    /\ sorteado = FALSE

Sortear ==
    /\ ~sorteado
    /\ tipo' = generar_tipo_transaccion(tabla, r)
    /\ sorteado' = TRUE
    /\ UNCHANGED <<tabla, r, simVars, routeVars>>

DrawSpec == DrawInit /\ [][Sortear]_vars

-----------------------------------------------------------------------------
(* the choice of the shortest queue on its own: one decision over a pool *)

Pools == UNION {[1..n -> 0..MaxCola] : n \in 1..MaxPool}

RouteInit ==
    /\ SimParado /\ DrawIdle
    /\ colas \in Pools
    /\ elegido = 0

Encaminar ==
    /\ elegido = 0
    /\ elegido' = ColaMasCorta(colas)
    /\ UNCHANGED <<colas, simVars, drawVars>>

RouteSpec == RouteInit /\ [][Encaminar]_vars

-----------------------------------------------------------------------------
(* Properties *)

Rango(q) == {q[k] : k \in 1..Len(q)}
Pos(q, x) == CHOOSE k \in 1..Len(q) : q[k] = x
EnServicioOMas == {c \in Clientes : estado[c] \in {"InService", "Departed"}}
SinServicio == {c \in Clientes : estado[c] \in {"NoCreado", "Creado", "Queueing"}}

\* C1: in both modes, after every scheduler step, every Resource has
\* 0 <= in_use <= capacity, in_use being the length of its users list
C1_InUseEnRango ==
    \A k \in Recursos : Len(users[k]) >= 0 /\ Len(users[k]) <= Capacidad

\* a shared Resource of capacity > 1 is full while a customer waits
C1_Witness ==
    /\ modo = "cola_unica" /\ Capacidad > 1
    /\ Len(users[1]) = Capacidad /\ put_queue[1] # << >>

\* C2: on a Resource of capacity 1, if a requested before b then b holds no
\* unit while a is still in the wait queue, and b never resumes from its
\* request before a does
C2_Fifo ==
    Capacidad = 1 =>
        \A a, b \in Rango(solicitudes) :
            (cajero[a] = cajero[b] /\ Pos(solicitudes, a) < Pos(solicitudes, b)) =>
                /\ a \in Rango(put_queue[cajero[a]]) =>
                       (usage_since[b] = -1 /\ b \notin Rango(users[cajero[b]]))
                /\ b \in Rango(quien) =>
                       (a \in Rango(quien) /\ Pos(quien, a) < Pos(quien, b))

\* a and b both waited at the same capacity-1 Resource, a has been given the
\* unit and b is still in the wait queue
C2_Witness ==
    /\ Capacidad = 1
    /\ \E a, b \in Rango(solicitudes) :
           /\ cajero[a] = cajero[b] /\ Pos(solicitudes, a) < Pos(solicitudes, b)
           /\ usage_since[a] > llegada[a]
           /\ llegada[b] < usage_since[a]
           /\ b \in Rango(put_queue[cajero[b]])

\* C3: every entry of tiempos_espera is >= 0 and <= the horizon
C3_EsperasEnRango ==
    \A k \in 1..Len(tiempos_espera) :
        tiempos_espera[k] >= 0 /\ tiempos_espera[k] <= horizonte

\* the run has returned with a positive wait among its samples
C3_Witness ==
    terminado /\ \E k \in 1..Len(tiempos_espera) : tiempos_espera[k] > 0

\* C4: the customers with a sample are exactly those in service or departed,
\* each has one sample, and the sample is the time the Resource gave the unit
\* (usage_since) minus the arrival time, so it holds no service time
C4_UnaMuestraAlAtender ==
    /\ Len(tiempos_espera) = Cardinality(EnServicioOMas)
    /\ Len(quien) = Len(tiempos_espera)
    /\ Rango(quien) = EnServicioOMas
    /\ \A k \in 1..Len(quien) :
           tiempos_espera[k] = usage_since[quien[k]] - llegada[quien[k]]

\* one customer departed after a positive service time, one in service after a
\* positive wait, one still waiting
C4_Witness ==
    \E a, b, c \in Clientes :
        /\ estado[a] = "Departed" /\ now > usage_since[a]
        /\ estado[b] = "InService" /\ usage_since[b] > llegada[b]
        /\ estado[c] = "Queueing"

\* C5 as stated: when the run has returned, every sample is of a customer
\* that has departed
C5_SoloPartidos ==
    terminado => \A k \in 1..Len(quien) : estado[quien[k]] = "Departed"

\* C5 amended: when the run has returned, the customers not yet given a unit
\* have no sample, and every customer in service or departed has its sample;
\* clientes = len(tiempos_espera) counts exactly these
C5_MuestrasAlHorizonte ==
    terminado =>
        /\ \A c \in SinServicio : c \notin Rango(quien)
        /\ \A c \in EnServicioOMas : c \in Rango(quien)
        /\ Len(tiempos_espera) = Cardinality(EnServicioOMas)

\* the run has returned with a customer departed, one in service and one waiting
C5_Witness ==
    /\ terminado
    /\ \E a, b, c \in Clientes :
           /\ estado[a] = "Departed" /\ estado[b] = "InService"
           /\ estado[c] = "Queueing"

\* C6: the teller chosen has the fewest waiting requests, and every teller
\* before it in the list has strictly more; lengths [2,0,1] choose the second
\* teller (index 1 of the code)
C6_ColaMasCorta ==
    elegido # 0 =>
        /\ elegido \in 1..Len(colas)
        /\ \A j \in 1..Len(colas) : colas[elegido] <= colas[j]
        /\ \A j \in 1..(elegido - 1) : colas[j] > colas[elegido]
        /\ colas = <<2, 0, 1>> => elegido = 2

\* several tellers tie for the shortest queue and the first of them is chosen
C6_Witness ==
    /\ elegido # 0
    /\ \E j \in 1..Len(colas) : j > elegido /\ colas[j] = colas[elegido]
    /\ \E j \in 1..Len(colas) : j < elegido

\* the cumulative probability of the first k entries of a table
RECURSIVE Suma(_, _)
Suma(probs, k) == IF k = 0 THEN 0 ELSE Suma(probs, k - 1) + probs[k]

\* C8: when some cumulative probability reaches r, the draw returns the first
\* index whose cumulative probability is >= r; over TRANSACCIONES r = 0.10
\* gives 0, r = 0.20 gives 1, r = 0.99 gives 3 and the boundary r = 0.15 gives 0
C8_PrimerAcumulado ==
    sorteado =>
        /\ \A k \in 1..Len(tabla) :
               (Suma(tabla, k) >= r /\ \A j \in 1..(k - 1) : Suma(tabla, j) < r)
                   => tipo = k - 1
        /\ tabla = ProbsTransacciones =>
               /\ r = 10 => tipo = 0
               /\ r = 20 => tipo = 1
               /\ r = 99 => tipo = 3
               /\ r = 15 => tipo = 0

\* a draw exactly on the first cumulative boundary of TRANSACCIONES gave index 0
C8_Witness == tabla = ProbsTransacciones /\ r = 15 /\ tipo = 0

\* C9: with a horizon that cuts no customer off, every customer that has
\* called request() eventually resumes with its unit
C9_SinInanicion ==
    \A c \in Clientes :
        (c \in Rango(solicitudes)) ~>
            (usage_since[c] # -1 /\ estado[c] \in {"InService", "Departed"})

\* a customer that had to wait a positive time is in service
C9_Witness ==
    \E c \in Clientes : estado[c] = "InService" /\ usage_since[c] > llegada[c]

\* C10 as stated: the event about to be processed is the earliest scheduled of
\* all pending events with its time, whatever their kind
C10_OrdenDeProgramacion ==
    (~terminado /\ queue # << >>) =>
        \A j \in 1..Len(queue) :
            queue[j].t = Ev.t => Siguiente(queue) <= j

\* C10 amended: among the pending events with the same time, the event about to
\* be processed was scheduled before every other of its own priority, and an
\* urgent event (a process start, the stop of the run) goes before every normal
\* event (timeout, grant, release, process end) even if scheduled after it
C10_OrdenPorPrioridad ==
    (~terminado /\ queue # << >>) =>
        \A j \in 1..Len(queue) :
            (queue[j].t = Ev.t /\ j # Siguiente(queue)) =>
                \/ Prioridad(Ev.kind) < Prioridad(queue[j].kind)
                \/ /\ Prioridad(Ev.kind) = Prioridad(queue[j].kind)
                   /\ Siguiente(queue) < j

\* a customer's start is about to be processed ahead of a timeout scheduled
\* earlier for the same time
C10_Witness ==
    /\ ~terminado /\ queue # << >>
    /\ Ev.kind = "Initialize"
    /\ \E j \in 1..Len(queue) :
           j < Siguiente(queue) /\ queue[j].t = Ev.t /\ queue[j].kind = "Timeout"

\* C13 as stated: when the run has returned, every event with a time up to and
\* including the horizon has been processed
C13_HastaElHorizonte ==
    terminado => \A j \in 1..Len(queue) : queue[j].t > horizonte

\* C13 amended: the run processes every event with a time before the horizon
\* and none with a time at or after it (the stop event is urgent and goes
\* first at the horizon); no unit is ever given at the horizon, so a customer
\* whose grant would fall exactly at the horizon records no sample
C13_AntesDelHorizonte ==
    /\ now <= horizonte
    /\ ~terminado =>
           (now < horizonte /\ \A j \in 1..Len(queue) : queue[j].t >= now)
    /\ terminado =>
           (now = horizonte /\ \A j \in 1..Len(queue) : queue[j].t >= horizonte)
    /\ \A c \in Clientes : usage_since[c] < horizonte
    /\ \A k \in 1..Len(quien) : llegada[quien[k]] + tiempos_espera[k] < horizonte

\* the run has returned leaving unprocessed a service timeout due exactly at
\* the horizon, whose release would have given the unit to a waiting customer
C13_Witness ==
    /\ terminado
    /\ \E j \in 1..Len(queue) :
           /\ queue[j].t = horizonte /\ queue[j].kind = "Timeout"
           /\ queue[j].who # GEN
           /\ put_queue[cajero[queue[j].who]] # << >>

\* C14: the clock never decreases from one step to the next and never exceeds
\* the horizon, and after every step every pending event, the ones just
\* scheduled included, has a time >= the clock
C14_RelojMonotono ==
    [][/\ now' >= now
       /\ now' <= horizonte
       /\ \A j \in 1..Len(queue') : queue'[j].t >= now']_vars

\* the clock has advanced and a timeout scheduled with delay 0 is pending
C14_Witness ==
    /\ now > 0 /\ ~terminado
    /\ \E j \in 1..Len(queue) : queue[j].t = now /\ queue[j].kind = "Timeout"

\* the moves of a customer process: created, started (Arrived, then Queueing on
\* its request in the same step), resumed with its unit, ended
Pasos == { <<"NoCreado", "Creado">>, <<"Creado", "Queueing">>,
           <<"Queueing", "InService">>, <<"InService", "Departed">> }

\* what C15 says of one step, apart from when a unit may be held
C15_Avance ==
    \A c \in Clientes :
        /\ estado'[c] # estado[c] => <<estado[c], estado'[c]>> \in Pasos
        /\ estado'[c] = "InService" =>
               Cardinality({k \in 1..Len(users'[cajero'[c]]) :
                                users'[cajero'[c]][k] = c}) = 1
        /\ \A k \in Recursos :
               (c \in Rango(users[k]) /\ c \notin Rango(users'[k])) =>
                   /\ estado[c] = "InService" /\ estado'[c] = "Departed"
                   /\ Ev.kind = "Timeout" /\ Ev.who = c /\ k = cajero[c]
        /\ (estado[c] = "InService" /\ estado'[c] = "Departed") =>
               /\ c \in Rango(users[cajero[c]])
               /\ Ev.kind = "Timeout" /\ Ev.who = c
        /\ estado'[c] = "Departed" => \A k \in Recursos : c \notin Rango(users'[k])
        /\ estado[c] = "Departed" =>
               /\ estado'[c] = "Departed"
               /\ Ev.who = c => Ev.kind \in {"Release", "Process"}

\* C15 as stated: forward moves only, one release at the service timeout, no
\* resumption after the end, and a unit held only while InService
C15_SoloEnServicio ==
    [][/\ C15_Avance
       /\ \A c \in Clientes : \A k \in Recursos :
              c \in Rango(users'[k]) => estado'[c] = "InService"]_vars

\* C15 amended: as stated, except that the Resource counts the customer among
\* its users from the step that gives it the unit, while the customer is still
\* suspended in Queueing with its Request event pending at the current clock
\* value; it is InService from the step that processes that event
C15_EstadosDelCliente ==
    [][/\ C15_Avance
       /\ \A c \in Clientes : \A k \in Recursos :
              c \in Rango(users'[k]) =>
                  /\ k = cajero'[c]
                  /\ \/ estado'[c] = "InService"
                     \/ /\ estado'[c] = "Queueing"
                        /\ \E j \in 1..Len(queue') :
                               queue'[j] = Evento(now', "Request", c)]_vars

\* one customer has departed and its events are consumed, while another has
\* been given the unit and has not resumed yet
C15_Witness ==
    \E a, b \in Clientes :
        /\ estado[a] = "Departed"
        /\ \A j \in 1..Len(queue) : queue[j].who # a
        /\ estado[b] = "Queueing" /\ b \in Rango(users[cajero[b]])
        /\ usage_since[b] > llegada[b]

\* customer c leaves the with block in this step
Sale(c) == estado[c] = "InService" /\ estado'[c] = "Departed"

\* C16 as stated: a release with a non-empty wait queue removes its head and
\* gives it the unit in the same step, in_use unchanged; with an empty wait
\* queue in_use decreases by one
C16_RelevoEnElPaso ==
    [][\A c \in Clientes : Sale(c) =>
           LET k == cajero[c]
           IN  IF put_queue[k] # << >>
               THEN /\ Len(users'[k]) = Len(users[k])
                    /\ put_queue'[k] = Tail(put_queue[k])
                    /\ Head(put_queue[k]) \in Rango(users'[k])
                    /\ usage_since'[Head(put_queue[k])] = now'
               ELSE Len(users'[k]) = Len(users[k]) - 1]_vars

\* C16 amended: a release decreases in_use by one in its own step, whatever
\* the wait queue, and schedules a Release event at the current clock value;
\* while a Resource has a free unit and a non-empty wait queue such an event
\* is pending at the clock; a waiting customer is given a unit only as the
\* head of its wait queue and at the clock value of a release of that
\* Resource, so its wait is the release time minus its arrival time
C16_RelevoEnElReloj ==
    [][/\ \A c \in Clientes : Sale(c) =>
              LET k == cajero[c]
              IN  /\ Len(users'[k]) = Len(users[k]) - 1
                  /\ put_queue' = put_queue
                  /\ \E j \in 1..Len(queue') : queue'[j] = Evento(now', "Release", c)
       /\ \A k \in Recursos :
              (put_queue'[k] # << >> /\ Len(users'[k]) < Capacidad) =>
                  \E j \in 1..Len(queue') :
                      /\ queue'[j].kind = "Release" /\ queue'[j].t = now'
                      /\ cajero'[queue'[j].who] = k
       /\ \A k \in Recursos : \A w \in Rango(put_queue[k]) :
              w \in Rango(users'[k]) =>
                  /\ w = Head(put_queue[k])
                  /\ w \notin Rango(put_queue'[k])
                  /\ usage_since'[w] = now' /\ now' = now
                  /\ \E j \in 1..Len(queue) :
                         /\ queue[j].kind = "Release" /\ queue[j].t = now'
                         /\ cajero[queue[j].who] = k]_vars

\* a unit has been released and the head of the wait queue not yet given it
C16_Witness ==
    \E k \in Recursos :
        /\ put_queue[k] # << >> /\ Len(users[k]) = Capacidad - 1
        /\ \E j \in 1..Len(queue) :
               /\ queue[j].kind = "Release" /\ queue[j].t = now
               /\ cajero[queue[j].who] = k

\* every customer is only ever in the put_queue or the users of the Resource
\* it requested: in that put_queue while it waits, in those users while served
EnSuRecurso ==
    \A c \in Clientes :
        /\ \A k \in Recursos :
               (c \in Rango(put_queue[k]) \/ c \in Rango(users[k])) => k = cajero[c]
        /\ (estado[c] = "Queueing" /\ usage_since[c] = -1) =>
               c \in Rango(put_queue[cajero[c]])
        /\ estado[c] = "InService" => c \in Rango(users[cajero[c]])

\* C17: in colas_separadas the Resource of a customer is chosen once, when the
\* customer starts; no later step changes it, the customer waits only in that
\* Resource's put_queue and is served only by that Resource
C17_SinCambioDeCola ==
    [][modo = "colas_separadas" =>
           /\ EnSuRecurso /\ EnSuRecurso'
           /\ \A c \in Clientes : cajero[c] # 0 => cajero'[c] = cajero[c]]_vars

\* a customer still waits at its teller after another teller has served a
\* customer and become idle with an empty put_queue
C17_Witness ==
    /\ modo = "colas_separadas"
    /\ \E c \in Clientes : \E k \in Recursos :
           /\ estado[c] = "Queueing" /\ c \in Rango(put_queue[cajero[c]])
           /\ k # cajero[c] /\ users[k] = << >> /\ put_queue[k] = << >>
           /\ \E d \in Clientes : estado[d] = "Departed" /\ cajero[d] = k

\* no event is left at the current clock value: the next step advances the
\* clock or there is no next step
RelojAvanza == terminado \/ queue = << >> \/ Ev.t > now

\* a customer starts: its process runs up to the request
Llega(c) == estado[c] = "Creado" /\ estado'[c] = "Queueing"

\* C18 as stated: in cola_unica, in every state between scheduler steps, a
\* non-empty wait queue means in_use = capacity
C18_EntreCadaPaso ==
    modo = "cola_unica" => (put_queue[1] # << >> => Len(users[1]) = Capacidad)

\* C18 amended: in cola_unica, in every state in which no event is left at the
\* current clock value a non-empty wait queue means in_use = capacity; in any
\* state a non-empty wait queue with a free unit has a Release event pending
\* at the current clock value; a customer arriving while in_use < capacity and
\* the wait queue is empty is given a unit in its arrival step, and every
\* recorded wait is the time the unit was given minus the arrival time, so
\* that customer records a wait of 0
C18_SinCajeroOcioso ==
    [][modo = "cola_unica" =>
           /\ (RelojAvanza' /\ put_queue'[1] # << >>) => Len(users'[1]) = Capacidad
           /\ (put_queue'[1] # << >> /\ Len(users'[1]) < Capacidad) =>
                  \E j \in 1..Len(queue') :
                      queue'[j].kind = "Release" /\ queue'[j].t = now'
           /\ \A c \in Clientes :
                  (Llega(c) /\ put_queue[1] = << >> /\ Len(users[1]) < Capacidad) =>
                      /\ c \in Rango(users'[1]) /\ put_queue'[1] = << >>
                      /\ usage_since'[c] = llegada'[c]
           /\ \A j \in 1..Len(quien') :
                  tiempos_espera'[j] = usage_since'[quien'[j]] - llegada'[quien'[j]]]_vars

\* the clock is about to advance with a customer waiting and every one of
\* several tellers busy, one of them with a customer that arrived to a free
\* unit and recorded a wait of 0
C18_Witness ==
    /\ modo = "cola_unica" /\ Capacidad > 1
    /\ RelojAvanza /\ ~terminado
    /\ put_queue[1] # << >> /\ Len(users[1]) = Capacidad
    /\ \E j \in 1..Len(quien) :
           quien[j] \in Rango(users[1]) /\ tiempos_espera[j] = 0

\* C19: in colas_separadas a starting customer is routed by put_queue lengths
\* alone, to the first Resource of least put_queue length whatever the users
\* of any Resource; with every put_queue empty that is the first Resource,
\* busy or not
C19_SoloLargoDeCola ==
    [][modo = "colas_separadas" =>
           \A c \in Clientes : Llega(c) =>
               LET k == cajero'[c]
               IN  /\ k \in Recursos
                   /\ \A m \in Recursos :
                          /\ Len(put_queue[k]) <= Len(put_queue[m])
                          /\ m < k => Len(put_queue[k]) < Len(put_queue[m])
                   /\ (\A m \in Recursos : put_queue[m] = << >>) => k = 1]_vars

\* a customer waits at the first teller while another teller, never requested
\* by anyone, has in_use = 0 and an empty put_queue
C19_Witness ==
    /\ modo = "colas_separadas"
    /\ put_queue[1] # << >> /\ Len(users[1]) = 1
    /\ \E k \in Recursos :
           /\ users[k] = << >> /\ put_queue[k] = << >>
           /\ \A d \in Clientes : cajero[d] # k

\* C20: in cola_unica, whatever the capacity, the k-th wait sample belongs to
\* the k-th customer the generator created and is the time between that
\* customer's arrival and its being given a unit
C20_MuestrasEnOrdenDeLlegada ==
    modo = "cola_unica" =>
        \A k \in 1..Len(quien) :
            /\ quien[k] = k
            /\ tiempos_espera[k] = usage_since[k] - llegada[k]

\* with several tellers, three samples recorded: the first two customers
\* arrived and were given a unit at one clock value, the third waited
C20_Witness ==
    /\ modo = "cola_unica" /\ Capacidad > 1
    /\ Len(tiempos_espera) >= 3
    /\ llegada[1] = llegada[2] /\ usage_since[1] = usage_since[2]
    /\ tiempos_espera[3] > 0

C11_FalloAntesDeEmpezar ==
    error =>
        /\ now = 0 /\ i = 0
        /\ \A c \in Clientes : estado[c] = "NoCreado"
        /\ solicitudes = << >>
        /\ tiempos_espera = << >>

=============================================================================
